---------------------------- MODULE Spec2Model ----------------------------
(***************************************************************************)
(* A model of the streamlit content agent (app/seo.py, app/llm.py,         *)
(* app/main.py).  Text is a sequence of one-character strings.             *)
(***************************************************************************)
EXTENDS Integers, Sequences, FiniteSets, TLC

VARIABLES
    outline,    \* st.session_state["outline"]
    draft,      \* st.session_state["draft"]
    seo_meta,   \* st.session_state["seo_meta"]: [Title, Description, Slug]
    provider,   \* st.session_state["provider"]
    environ,    \* os.environ of the process: the three variables the code reads
    lastRun,    \* what the last script run did (handler, outcome, requests, shown text)
    slugRun,    \* one application of slugify
    seoRun,     \* one application of seo_checklist
    llmRun      \* one construction and call of LLMClient

sessVars == <<outline, draft, seo_meta, provider, environ, lastRun>>
vars == <<outline, draft, seo_meta, provider, environ, lastRun, slugRun, seoRun, llmRun>>

Idle == [pc |-> "idle"]

\* Python's None where a string is expected, and an environment with nothing set
None == "<None>"
NoEnviron == [OPENAI_API_KEY |-> None, OLLAMA_BASE_URL |-> None, OLLAMA_MODEL |-> None]

-----------------------------------------------------------------------------
(* Characters and strings                                                  *)

LowerLetters ==
    {"a","b","c","d","e","f","g","h","i","j","k","l","m",
     "n","o","p","q","r","s","t","u","v","w","x","y","z"}

UpperLetters ==
    {"A","B","C","D","E","F","G","H","I","J","K","L","M",
     "N","O","P","Q","R","S","T","U","V","W","X","Y","Z"}

Digits == {"0","1","2","3","4","5","6","7","8","9"}

LowerOf ==
    [A |-> "a", B |-> "b", C |-> "c", D |-> "d", E |-> "e", F |-> "f", G |-> "g",
     H |-> "h", I |-> "i", J |-> "j", K |-> "k", L |-> "l", M |-> "m", N |-> "n",
     O |-> "o", P |-> "p", Q |-> "q", R |-> "r", S |-> "s", T |-> "t", U |-> "u",
     V |-> "v", W |-> "w", X |-> "x", Y |-> "y", Z |-> "z"]

\* str.lower() on one character
LowerChar(c) == IF c \in UpperLetters THEN LowerOf[c] ELSE c

\* str.lower()
Lower(s) == [i \in 1..Len(s) |-> LowerChar(s[i])]

\* the regular expression class \s, and the characters str.strip() removes
Spaces == {" ", "\n", "\t", "\r"}
IsSpace(c) == c \in Spaces

\* the regular expression class \w
IsWord(c) == c \in LowerLetters \cup UpperLetters \cup Digits \cup {"_"}

MinOf(S) == CHOOSE i \in S : \A j \in S : i <= j
MaxOf(S) == CHOOSE i \in S : \A j \in S : i >= j

\* s with its leading and trailing characters of the set drop removed
StripBy(s, drop) ==
    LET n == Len(s)
        lead == MinOf({k \in 0..n : k = n \/ s[k+1] \notin drop})
        trail == MinOf({k \in 0..n : k = n \/ s[n-k] \notin drop})
    IN  IF lead = n THEN <<>> ELSE SubSeq(s, lead + 1, n - trail)

\* str.strip()
Strip(s) == StripBy(s, Spaces)

\* str.strip("-")
StripHyphens(s) == StripBy(s, {"-"})

\* s[:n]
Prefix(s, n) == SubSeq(s, 1, IF Len(s) < n THEN Len(s) ELSE n)

\* n copies of the character c
Rep(c, n) == [i \in 1..n |-> c]

\* re.sub(class+, "-", s): every maximal run of characters of class becomes one hyphen
CollapseRuns(s, class) ==
    LET marked == [i \in 1..Len(s) |->
                     IF s[i] \in class
                     THEN (IF i > 1 /\ s[i-1] \in class THEN "" ELSE "-")
                     ELSE s[i]]
        Kept(c) == c # ""
    IN  SelectSeq(marked, Kept)

-----------------------------------------------------------------------------
(* app/seo.py: slugify                                                     *)

SlugMaxLen == 70

\* the characters re.sub(r"[^a-z0-9\s-]", "", text) keeps
SlugKeeps(c) == c \in LowerLetters \cup Digits \cup {"-"} \/ IsSpace(c)

\* a slip: the hyphen runs are not collapsed
slugify_no_collapse(text) ==
    LET t1 == Strip(Lower(text))
        t2 == SelectSeq(t1, SlugKeeps)
        t3 == CollapseRuns(t2, Spaces)
    IN  StripHyphens(Prefix(t3, SlugMaxLen))

\* a slip: the hyphens are trimmed before the truncation, not after it
slugify_trim_first(text) ==
    LET t1 == Strip(Lower(text))
        t2 == SelectSeq(t1, SlugKeeps)
        t3 == CollapseRuns(t2, Spaces)
        t4 == CollapseRuns(t3, {"-"})
    IN  Prefix(StripHyphens(t4), SlugMaxLen)

slugify(text) ==
    LET t1 == Strip(Lower(text))
        t2 == SelectSeq(t1, SlugKeeps)
        t3 == CollapseRuns(t2, Spaces)
        t4 == CollapseRuns(t3, {"-"})
    IN  StripHyphens(Prefix(t4, SlugMaxLen))

\* the inputs of slugify: a head, a run of letters, a tail over SlugAlphabet
MaxTail == 3
SlugAlphabet == {"a", "B", "-", " ", "!"}
SlugHeads == {<<>>, <<" ">>, <<"-">>, <<"!", "-">>}
SlugTails == UNION {[1..n -> SlugAlphabet] : n \in 0..MaxTail}
SlugPads == {0} \cup ((SlugMaxLen - MaxTail)..SlugMaxLen)
SlugInputs == {h \o Rep("a", k) \o t : h \in SlugHeads, k \in SlugPads, t \in SlugTails}

SlugOthersIdle ==
    /\ outline = <<>> /\ draft = <<>>
    /\ seo_meta = [Title |-> <<>>, Description |-> <<>>, Slug |-> <<>>]
    /\ provider = "ollama"
    /\ environ = NoEnviron
    /\ lastRun = Idle /\ seoRun = Idle /\ llmRun = Idle

SlugInit ==
    /\ SlugOthersIdle
    /\ slugRun \in {[pc |-> "input", text |-> x] : x \in SlugInputs}

SlugApply ==
    /\ slugRun.pc = "input"
    /\ slugRun' = [pc |-> "done", text |-> slugRun.text,
                   out |-> slugify(slugRun.text),
                   again |-> slugify(slugify(slugRun.text))]
    /\ UNCHANGED <<outline, draft, seo_meta, provider, environ, lastRun, seoRun, llmRun>>

SlugNext == SlugApply

SpecSlug == SlugInit /\ [][SlugNext]_vars

\* the shape of a slug: [a-z0-9-]{0,70}, no leading, trailing or doubled hyphen
IsSlug(s) ==
    /\ Len(s) <= SlugMaxLen
    /\ \A i \in 1..Len(s) : s[i] \in LowerLetters \cup Digits \cup {"-"}
    /\ Len(s) > 0 => (s[1] # "-" /\ s[Len(s)] # "-")
    /\ \A i \in 1..(Len(s) - 1) : ~(s[i] = "-" /\ s[i+1] = "-")

\* C7: for every input x, slugify(x) has at most 70 characters, all of [a-z0-9-],
\* with no leading, trailing or doubled hyphen; slugify of the empty string is empty.
C7_SlugShape ==
    slugRun.pc = "done" =>
        /\ IsSlug(slugRun.out)
        /\ (slugRun.text = <<>> => slugRun.out = <<>>)

\* an input longer than 70 characters with hyphens and a blank gave a full-length slug
C7_Witness ==
    /\ slugRun.pc = "done"
    /\ Len(slugRun.text) > SlugMaxLen
    /\ \E i \in 1..(Len(slugRun.text) - 1) : slugRun.text[i] = "-" /\ slugRun.text[i+1] = " "
    /\ Len(slugRun.out) = SlugMaxLen

\* C8: slugify is idempotent, also on inputs longer than 70 characters whose
\* truncation point falls on or next to a hyphen.
C8_SlugIdempotent ==
    slugRun.pc = "done" => slugRun.again = slugRun.out

\* an input whose 70th character is a hyphen followed by more text
C8_Witness ==
    /\ slugRun.pc = "done"
    /\ Len(slugRun.text) > SlugMaxLen
    /\ slugRun.text[SlugMaxLen] = "-"
    /\ slugRun.text[SlugMaxLen + 1] = "a"
    /\ slugRun.out = Rep("a", SlugMaxLen - 1)

-----------------------------------------------------------------------------
(* app/seo.py: keyword_density                                             *)

\* re.findall(r"\b\w+\b", s) from position i on: the maximal runs of word characters
RECURSIVE FindWords(_, _)
FindWords(s, i) ==
    IF i > Len(s) THEN <<>>
    ELSE IF ~IsWord(s[i]) THEN FindWords(s, i + 1)
    ELSE LET e == MinOf({j \in i..Len(s) : j = Len(s) \/ ~IsWord(s[j+1])})
         IN  <<SubSeq(s, i, e)>> \o FindWords(s, e + 1)

\* " ".join(words)
RECURSIVE Join(_)
Join(words) ==
    IF words = <<>> THEN <<>>
    ELSE IF Len(words) = 1 THEN words[1]
    ELSE words[1] \o <<" ">> \o Join(Tail(words))

\* the regular expression anchor \b before position p of s
Boundary(s, p) ==
    LET before == p > 1 /\ p - 1 <= Len(s) /\ IsWord(s[p-1])
        after  == p >= 1 /\ p <= Len(s) /\ IsWord(s[p])
    IN  before # after

\* len(re.findall(rf"\b{re.escape(k)}\b", s)) from position i on, for a non-empty k
RECURSIVE CountWhole(_, _, _)
CountWhole(s, k, i) ==
    IF i + Len(k) - 1 > Len(s) THEN 0
    ELSE IF /\ SubSeq(s, i, i + Len(k) - 1) = k
            /\ Boundary(s, i)
            /\ Boundary(s, i + Len(k))
         THEN 1 + CountWhole(s, k, i + Len(k))
         ELSE CountWhole(s, k, i + 1)

\* round(100 * count / total, 2), in hundredths of a percent (ties to even)
Density(count, total) ==
    LET n == 10000 * count
        q == n \div total
        r == n % total
    IN  IF 2 * r < total THEN q
        ELSE IF 2 * r > total THEN q + 1
        ELSE IF q % 2 = 0 THEN q ELSE q + 1

\* d[key] = val on a dict kept as the sequence of its entries in insertion order
DictSet(d, key, val) ==
    IF \E i \in 1..Len(d) : d[i].key = key
    THEN [i \in 1..Len(d) |-> IF d[i].key = key THEN [key |-> key, val |-> val] ELSE d[i]]
    ELSE Append(d, [key |-> key, val |-> val])

\* the loop of keyword_density over keywords[i..], densities so far in d
RECURSIVE DensityLoop(_, _, _, _, _)
DensityLoop(joined, total, keywords, i, d) ==
    IF i > Len(keywords) THEN d
    ELSE LET kw == keywords[i]
             k  == Lower(Strip(kw))
         IN  IF k = <<>>
             THEN DensityLoop(joined, total, keywords, i + 1, d)
             ELSE DensityLoop(joined, total, keywords, i + 1,
                              DictSet(d, kw, Density(CountWhole(joined, k, 1), total)))

keyword_density(text, keywords) ==
    LET words  == FindWords(Lower(text), 1)
        total  == IF Len(words) > 1 THEN Len(words) ELSE 1
        joined == Join(words)
    IN  DensityLoop(joined, total, keywords, 1, <<>>)

-----------------------------------------------------------------------------
(* app/seo.py: seo_checklist                                               *)

\* text.split("\n") from position i on
RECURSIVE Lines(_, _)
Lines(s, i) ==
    LET nl == {j \in i..Len(s) : s[j] = "\n"}
    IN  IF nl = {} THEN <<SubSeq(s, i, Len(s))>>
        ELSE <<SubSeq(s, i, MinOf(nl) - 1)>> \o Lines(s, MinOf(nl) + 1)

\* the lines matching ^#{level} (.+)$ under re.MULTILINE
Headings(s, level) ==
    LET Matches(l) ==
            /\ Len(l) >= level + 2
            /\ \A i \in 1..level : l[i] = "#"
            /\ l[level + 1] = " "
    IN  SelectSeq(Lines(s, 1), Matches)

\* a match of \[([^\]]{min,})\]\(([^)]+)\) whose "[" is at position i:
\* <<the end of the match, the first group>>, or <<>> when there is none
BracketMatch(s, i, min) ==
    LET close == {j \in (i + 1)..Len(s) : s[j] = "]"}
    IN  IF i > Len(s) \/ s[i] # "[" \/ close = {} THEN <<>>
        ELSE LET j == MinOf(close)
                 paren == {k \in (j + 2)..Len(s) : s[k] = ")"}
             IN  IF j - i - 1 < min \/ j + 1 > Len(s) \/ s[j+1] # "(" \/ paren = {} THEN <<>>
                 ELSE IF MinOf(paren) = j + 2 THEN <<>>
                 ELSE <<MinOf(paren), SubSeq(s, i + 1, j - 1)>>

\* re.findall(r"\[([^\]]+)\]\(([^)]+)\)", s) from position i on: the link texts
RECURSIVE FindLinks(_, _)
FindLinks(s, i) ==
    IF i > Len(s) THEN <<>>
    ELSE LET m == BracketMatch(s, i, 1)
         IN  IF m = <<>> THEN FindLinks(s, i + 1)
             ELSE <<m[2]>> \o FindLinks(s, m[1] + 1)

\* re.findall(r"!\[([^\]]*)\]\(([^)]+)\)", s) from position i on: the alt texts
RECURSIVE FindImages(_, _)
FindImages(s, i) ==
    IF i > Len(s) THEN <<>>
    ELSE LET m == IF s[i] = "!" THEN BracketMatch(s, i + 1, 0) ELSE <<>>
         IN  IF m = <<>> THEN FindImages(s, i + 1)
             ELSE <<m[2]>> \o FindImages(s, m[1] + 1)

\* int(0.9 * target_words): the double product truncated, which is floor(9 t / 10)
\* for every t below 200000
LengthThreshold(target_words) == (9 * target_words) \div 10

seo_checklist(markdown_text, target_words, keywords) ==
    LET h1 == Headings(markdown_text, 1)
        h2 == Headings(markdown_text, 2)
        word_count == Len(FindWords(markdown_text, 1))
        links == FindLinks(markdown_text, 1)
        images == FindImages(markdown_text, 1)
    IN  [has_h1 |-> h1 # <<>>,
         has_h2 |-> Len(h2) >= 2,
         word_count |-> word_count,
         meets_length |-> word_count >= LengthThreshold(target_words),
         has_links |-> Len(links) > 0,
         has_images_with_alt |->
             IF images # <<>>
             THEN \A i \in 1..Len(images) : Strip(images[i]) # <<>>
             ELSE TRUE,
         keyword_density |-> keyword_density(markdown_text, keywords)]

\* the inputs of seo_checklist
MaxWords == 10
MaxTarget == 11
MaxKeywords == 2
DefaultTarget == 900
SeoSamples ==
    {<<"#"," ","T","\n","#","#"," ","a","\n","#","#"," ","b","\n","[","a","]","(","u",")">>,
     <<"!","[","]","(","u",")"," ","A","_","b"," ","a","-","B">>,
     <<"#","#"," ","a"," ","a","\n","!","[","x","]","(","u",")">>}
SeoTexts == {Join([i \in 1..n |-> <<"a">>]) : n \in 0..MaxWords} \cup SeoSamples
SeoTargets == (0..MaxTarget) \cup {DefaultTarget}
SeoKeywordChoices == {<<"a">>, <<" ","a">>, <<"A">>, <<" ">>, <<>>, <<"a"," ","a">>}
SeoKeywordLists == UNION {[1..n -> SeoKeywordChoices] : n \in 0..MaxKeywords}

SeoOthersIdle ==
    /\ outline = <<>> /\ draft = <<>>
    /\ seo_meta = [Title |-> <<>>, Description |-> <<>>, Slug |-> <<>>]
    /\ provider = "ollama"
    /\ environ = NoEnviron
    /\ lastRun = Idle /\ slugRun = Idle /\ llmRun = Idle

SeoInit ==
    /\ SeoOthersIdle
    /\ seoRun \in {[pc |-> "input", text |-> t, target |-> n, keywords |-> ks] :
                       t \in SeoTexts, n \in SeoTargets, ks \in SeoKeywordLists}

SeoApply ==
    /\ seoRun.pc = "input"
    /\ seoRun' = [seoRun EXCEPT !.pc = "done"] @@
                 [checks |-> seo_checklist(seoRun.text, seoRun.target, seoRun.keywords)]
    /\ UNCHANGED <<outline, draft, seo_meta, provider, environ, lastRun, slugRun, llmRun>>

SeoNext == SeoApply

SpecSeo == SeoInit /\ [][SeoNext]_vars

\* C9: meetsLength is true exactly when 10 * wordCount >= 9 * targetWordCount;
\* the empty text with target 900 gives wordCount 0 and meetsLength false.
C9_MeetsLength ==
    seoRun.pc = "done" =>
        /\ seoRun.checks.meets_length =
               (10 * seoRun.checks.word_count >= 9 * seoRun.target)
        /\ (seoRun.text = <<>> /\ seoRun.target = DefaultTarget =>
               seoRun.checks.word_count = 0 /\ ~seoRun.checks.meets_length)

\* the keywords of ks that are not blank, trimmed, without the repetitions of an
\* earlier one, in the order of first occurrence
RECURSIVE DistinctTrimmed(_, _, _)
DistinctTrimmed(ks, i, acc) ==
    IF i > Len(ks) THEN acc
    ELSE LET k == Strip(ks[i])
         IN  IF k = <<>> \/ \E j \in 1..Len(acc) : acc[j] = k
             THEN DistinctTrimmed(ks, i + 1, acc)
             ELSE DistinctTrimmed(ks, i + 1, Append(acc, k))

\* C10: keywordDensity has exactly one entry per distinct non-blank keyword after
\* trimming, in the order of first occurrence; the empty list gives the empty map.
C10_DensityKeys ==
    seoRun.pc = "done" =>
        LET d == seoRun.checks.keyword_density
            want == DistinctTrimmed(seoRun.keywords, 1, <<>>)
        IN  /\ Len(d) = Len(want)
            /\ \A i \in 1..Len(d) : Strip(d[i].key) = want[i]
            /\ (seoRun.keywords = <<>> => d = <<>>)

-----------------------------------------------------------------------------
(* app/llm.py: LLMConfig, LLMClient                                        *)

\* bool(x) of an optional string
Truthy(x) == x # None /\ x # ""

\* os.getenv(name, default)
Getenv(env, name, default) == IF env[name] # None THEN env[name] ELSE default

DefaultBaseUrl == "http://localhost:11434"
DefaultOllamaModel == "llama3"
DefaultOpenAIModel == "gpt-4o-mini"

\* LLMConfig(...): the dataclass with its defaults
LLMConfig(provider_, model, openai_api_key, ollama_base_url, ollama_model) ==
    [provider |-> provider_, model |-> model, temperature |-> 50,
     openai_api_key |-> openai_api_key,
     ollama_base_url |-> ollama_base_url, ollama_model |-> ollama_model]

\* LLMClient.__init__: the configuration after the environment overrides
LLMClient(cfg, env) ==
    [cfg EXCEPT
        !.openai_api_key = IF Truthy(cfg.openai_api_key) THEN cfg.openai_api_key
                           ELSE env.OPENAI_API_KEY,
        !.ollama_base_url = Getenv(env, "OLLAMA_BASE_URL", cfg.ollama_base_url),
        !.ollama_model = Getenv(env, "OLLAMA_MODEL", cfg.ollama_model)]

\* what a call of generate gives: the text returned or the exception raised, and
\* the requests it sent to a backend
Returned(text, requests) == [error |-> "none", text |-> text, requests |-> requests]
Raised(error, requests) == [error |-> error, text |-> <<>>, requests |-> requests]

\* a slip: the key is not checked before the request is sent
openai_generate_no_key_check(self, prompt, model, temperature, reply) ==
    LET request == [api |-> "chat.completions.create", url |-> <<"openai">>,
                    key |-> self.openai_api_key, model |-> model,
                    prompt |-> prompt, temperature |-> temperature, timeout |-> 0]
    IN  IF reply.kind = "api_error" THEN Raised("APIError", <<request>>)
        ELSE IF reply.content.tag # "str" THEN Raised("AttributeError", <<request>>)
        ELSE Returned(Strip(reply.content.val), <<request>>)

\* LLMClient._openai_generate; reply is what the chat completion call does
openai_generate(self, prompt, model, temperature, reply) ==
    LET request == [api |-> "chat.completions.create", url |-> <<"openai">>,
                    key |-> self.openai_api_key, model |-> model,
                    prompt |-> prompt, temperature |-> temperature, timeout |-> 0]
    IN  IF ~Truthy(self.openai_api_key) THEN Raised("RuntimeError", <<>>)
        ELSE IF reply.kind = "api_error" THEN Raised("APIError", <<request>>)
        ELSE IF reply.content.tag # "str" THEN Raised("AttributeError", <<request>>)
        ELSE Returned(Strip(reply.content.val), <<request>>)

\* a slip: r.raise_for_status() is left out
ollama_generate_no_raise(self, prompt, model, temperature, reply) ==
    LET request == [api |-> "POST", url |-> <<self.ollama_base_url, "/api/generate">>,
                    key |-> None, model |-> model,
                    prompt |-> prompt, temperature |-> temperature, timeout |-> 990]
    IN  IF reply.kind = "connection_error" THEN Raised("ConnectionError", <<request>>)
        ELSE IF reply.body.json = "invalid" THEN Raised("JSONDecodeError", <<request>>)
        ELSE IF reply.body.json = "list" THEN Raised("AttributeError", <<request>>)
        ELSE IF reply.body.response.tag \in {"absent", "null"}
             THEN Returned(<<>>, <<request>>)
        ELSE IF reply.body.response.tag # "str" THEN Raised("AttributeError", <<request>>)
        ELSE Returned(Strip(reply.body.response.val), <<request>>)

\* LLMClient._ollama_generate; reply is what requests.post does
ollama_generate(self, prompt, model, temperature, reply) ==
    LET request == [api |-> "POST", url |-> <<self.ollama_base_url, "/api/generate">>,
                    key |-> None, model |-> model,
                    prompt |-> prompt, temperature |-> temperature, timeout |-> 990]
    IN  IF reply.kind = "connection_error" THEN Raised("ConnectionError", <<request>>)
        ELSE IF reply.status >= 400 /\ reply.status < 600
             THEN Raised("HTTPError", <<request>>)
        ELSE IF reply.body.json = "invalid" THEN Raised("JSONDecodeError", <<request>>)
        ELSE IF reply.body.json = "list" THEN Raised("AttributeError", <<request>>)
        ELSE IF reply.body.response.tag \in {"absent", "null"}
             THEN Returned(<<>>, <<request>>)
        ELSE IF reply.body.response.tag # "str" THEN Raised("AttributeError", <<request>>)
        ELSE Returned(Strip(reply.body.response.val), <<request>>)

\* LLMClient.generate, called with a temperature and no model
generate(self, prompt, temperature, reply) ==
    IF self.provider = "ollama"
    THEN ollama_generate(self, prompt, self.ollama_model, temperature, reply)
    ELSE openai_generate(self, prompt, self.model, temperature, reply)

\* the values of a JSON "response" field, and of a completion's content
Str(t) == [tag |-> "str", val |-> t]
NoStr(tag) == [tag |-> tag, val |-> <<>>]

\* the bodies of a response that carry no text
AllBodies ==
    {[json |-> "invalid", response |-> NoStr("absent")],
     [json |-> "list", response |-> NoStr("absent")],
     [json |-> "object", response |-> NoStr("absent")],
     [json |-> "object", response |-> NoStr("null")],
     [json |-> "object", response |-> NoStr("number")]}

\* what the local backend may answer: no response, or a status with one of
\* bodies or with a JSON object whose response is a text of T
OllamaReplies(statuses, bodies, T) ==
    {[kind |-> "connection_error"]} \cup
    {[kind |-> "response", status |-> st, body |-> b] :
        st \in statuses,
        b \in bodies \cup {[json |-> "object", response |-> Str(t)] : t \in T}}

\* what the remote backend may answer with texts T
OpenAIReplies(T) ==
    {[kind |-> "api_error"], [kind |-> "completion", content |-> NoStr("null")]}
    \cup {[kind |-> "completion", content |-> Str(t)] : t \in T}

Replies(provider_, statuses, bodies, T) ==
    IF provider_ = "ollama" THEN OllamaReplies(statuses, bodies, T) ELSE OpenAIReplies(T)

HttpStatuses == {200, 204, 302, 404, 500}
LlmTexts == {<<>>, <<" ","a"," ","b","\n">>, <<"o","k">>}
LlmConfigs ==
    {LLMConfig(p, DefaultOpenAIModel, k, b, DefaultOllamaModel) :
        p \in {"ollama", "openai"},
        k \in {None, "", "sk-config"},
        b \in {DefaultBaseUrl, "http://sidebar:11434"}}
LlmEnvirons ==
    {[OPENAI_API_KEY |-> k, OLLAMA_BASE_URL |-> b, OLLAMA_MODEL |-> m] :
        k \in {None, "", "sk-env"},
        b \in {None, "http://env:11434"},
        m \in {None, "mistral"}}

LlmOthersIdle ==
    /\ outline = <<>> /\ draft = <<>>
    /\ seo_meta = [Title |-> <<>>, Description |-> <<>>, Slug |-> <<>>]
    /\ provider = "ollama"
    /\ environ = NoEnviron
    /\ lastRun = Idle /\ slugRun = Idle /\ seoRun = Idle

LlmInit ==
    /\ LlmOthersIdle
    /\ llmRun \in {[pc |-> "config", cfg |-> c, env |-> e] :
                       c \in LlmConfigs, e \in LlmEnvirons}

LlmGenerate ==
    /\ llmRun.pc = "config"
    /\ \E reply \in Replies(llmRun.cfg.provider, HttpStatuses, AllBodies, LlmTexts) :
          LET client == LLMClient(llmRun.cfg, llmRun.env)
          IN  llmRun' = [pc |-> "done", cfg |-> llmRun.cfg, env |-> llmRun.env,
                         reply |-> reply,
                         result |-> generate(client, "prompt", 50, reply)]
    /\ UNCHANGED <<outline, draft, seo_meta, provider, environ, lastRun, slugRun, seoRun>>

LlmNext == LlmGenerate

SpecLLM == LlmInit /\ [][LlmNext]_vars

\* C6: with the remote backend and no non-empty API key in the configuration nor in
\* the environment, generate fails with a configuration error and sends nothing;
\* with the local backend it never asks for a key and sends exactly one POST to
\* {baseUrl}/api/generate.
C6_Dispatch ==
    llmRun.pc = "done" =>
        LET cfg == llmRun.cfg
            env == llmRun.env
            nokey == /\ cfg.openai_api_key \in {None, ""}
                     /\ env.OPENAI_API_KEY \in {None, ""}
            base == IF env.OLLAMA_BASE_URL = None THEN cfg.ollama_base_url
                    ELSE env.OLLAMA_BASE_URL
        IN  /\ (cfg.provider = "openai" /\ nokey) =>
                  /\ llmRun.result.error = "RuntimeError"
                  /\ llmRun.result.requests = <<>>
            /\ cfg.provider = "ollama" =>
                  /\ llmRun.result.error # "RuntimeError"
                  /\ Len(llmRun.result.requests) = 1
                  /\ llmRun.result.requests[1].api = "POST"
                  /\ llmRun.result.requests[1].url = <<base, "/api/generate">>
                  /\ llmRun.result.requests[1].key = None

\* the remote backend was asked with an empty key in the sidebar and none in the
\* environment, and refused before any request
C6_Witness ==
    /\ llmRun.pc = "done"
    /\ llmRun.cfg.provider = "openai"
    /\ llmRun.cfg.openai_api_key = ""
    /\ llmRun.env.OPENAI_API_KEY = None
    /\ llmRun.result.error = "RuntimeError"
    /\ llmRun.result.requests = <<>>

-----------------------------------------------------------------------------
(* app/prompts.py, kept as the template's name and the session text it embeds; *)
(* topic, audience, tone and keywords stay at the sidebar's defaults            *)

SuggestionChars == 6000

outline_prompt == [template |-> "outline", text |-> <<>>]
draft_prompt(outline_) == [template |-> "draft", text |-> outline_]
improve_prompt(draft_) == [template |-> "improve", text |-> draft_]
seo_meta_prompt(draft_) == [template |-> "seo_meta", text |-> draft_]
suggestions_prompt(draft_) == [template |-> "suggestions", text |-> Prefix(draft_, SuggestionChars)]

-----------------------------------------------------------------------------
(* app/main.py: the SEO meta parsed from the generated text                *)

TitleMaxLen == 60
DescriptionMaxLen == 155

TitleLabel == <<"T","i","t","l","e",":">>
DescriptionLabel == <<"D","e","s","c","r","i","p","t","i","o","n",":">>
SlugLabel == <<"S","l","u","g",":">>

\* whether label stands in s at position i
LabelAt(s, label, i) ==
    /\ i + Len(label) - 1 <= Len(s)
    /\ SubSeq(s, i, i + Len(label) - 1) = label

\* the group of \s*(.+) matched from position e of s: <<group>>, or <<>> when
\* there is no match.  \s* takes the longest run of blanks that still leaves
\* (.+) a character other than a line feed, and (.+) runs to the end of the line.
GroupFrom(s, e) ==
    LET w == MinOf({n \in 0..(Len(s) - e + 1) : e + n > Len(s) \/ ~IsSpace(s[e+n])})
        starts == {n \in 0..w : e + n <= Len(s) /\ s[e+n] # "\n"}
    IN  IF starts = {} THEN <<>>
        ELSE LET p == e + MaxOf(starts)
                 nl == {j \in p..Len(s) : s[j] = "\n"}
                 q == IF nl = {} THEN Len(s) ELSE MinOf(nl) - 1
             IN  <<SubSeq(s, p, q)>>

\* re.search(label + r"\s*(.+)", s): <<group(1)>> of the leftmost match, or <<>>
Search(label, s) ==
    LET hits == {i \in 1..Len(s) :
                    LabelAt(s, label, i) /\ GroupFrom(s, i + Len(label)) # <<>>}
    IN  IF hits = {} THEN <<>> ELSE GroupFrom(s, MinOf(hits) + Len(label))

\* m.group(1).strip() if m else ""
GroupOrEmpty(m) == IF m # <<>> THEN Strip(m[1]) ELSE <<>>

\* the dict the seo_btn handler stores for a non-empty meta_raw
ParseMeta(meta_raw) ==
    [Title |-> Prefix(GroupOrEmpty(Search(TitleLabel, meta_raw)), TitleMaxLen),
     Description |-> Prefix(GroupOrEmpty(Search(DescriptionLabel, meta_raw)), DescriptionMaxLen),
     Slug |-> slugify(GroupOrEmpty(Search(SlugLabel, meta_raw)))]

-----------------------------------------------------------------------------
(* app/main.py: the session and the handlers of one script run             *)

Temperature == 50
Topic == <<"H","o","w"," ","t","o"," ","s","t","a","r","t"," ","a"," ","h","a","b","i","t"," ","o","f"," ","r","e","a","d","i","n","g">>

\* min(0.8, max(0.2, temperature)), in hundredths
ClampTemperature(t) ==
    LET lo == IF t > 20 THEN t ELSE 20
    IN  IF lo < 80 THEN lo ELSE 80

\* not text.strip()
IsBlank_no_strip(text) == text = <<>>

IsBlank(text) == Strip(text) = <<>>

\* the cfg the sidebar builds for the selected provider and the typed key
SidebarConfig(provider_, env, key) ==
    IF provider_ = "openai"
    THEN LLMConfig("openai", DefaultOpenAIModel, key, DefaultBaseUrl, DefaultOllamaModel)
    ELSE LLMConfig("ollama", "N/A", None,
                   Getenv(env, "OLLAMA_BASE_URL", DefaultBaseUrl),
                   Getenv(env, "OLLAMA_MODEL", DefaultOllamaModel))

Session == [outline |-> outline, draft |-> draft, seo_meta |-> seo_meta]

\* a slip: a new outline also clears the draft written from the old one
gen_outline_clears_draft(sess, res) ==
    IF res.error = "none" THEN [sess EXCEPT !.outline = res.text, !.draft = <<>>] ELSE sess

\* st.session_state["outline"] = client.generate(...): no assignment when it raises
gen_outline(sess, res) ==
    IF res.error = "none" THEN [sess EXCEPT !.outline = res.text] ELSE sess

\* st.session_state["draft"] = client.generate(...), of gen_draft and improve_btn
gen_draft(sess, res) ==
    IF res.error = "none" THEN [sess EXCEPT !.draft = res.text] ELSE sess

\* the seo_btn handler: seo_meta is replaced only for a non-empty meta_raw
seo_refresh(sess, res) ==
    IF res.error = "none" /\ res.text # <<>>
    THEN [sess EXCEPT !.seo_meta = ParseMeta(res.text)]
    ELSE sess

\* f"{title or topic}"
TitleOrTopic(meta) == IF meta.Title # <<>> THEN meta.Title ELSE Topic

\* md_export, the f-string
md_export(sess) ==
    <<"#"," ">> \o TitleOrTopic(sess.seo_meta) \o <<"\n","\n",">"," ","M","e","t","a",":"," ">> \o sess.seo_meta.Description
    \o <<"\n","\n","<","!","-","-"," ","s","l","u","g",":"," ">> \o sess.seo_meta.Slug \o <<" ","-","-",">","\n","\n">> \o sess.draft \o <<"\n">>

\* the record of one script run
NoCall == Returned(<<>>, <<>>)
Ran(handler, outcome, res, status, warning, shown, download) ==
    [pc |-> "ran", handler |-> handler, outcome |-> outcome, error |-> res.error,
     status |-> status, requests |-> res.requests, returned |-> res.text,
     warning |-> warning, shown |-> shown, download |-> download]

StatusOf(reply) == IF reply.kind = "response" THEN reply.status ELSE 0
OutcomeOf(res) == IF res.error = "none" THEN "ok" ELSE "error"

\* the inputs of a run
SessionStatuses == {200, 500}
SessionBodies == {b \in AllBodies : b.json = "invalid" \/ b.response.tag = "absent"}
SidebarKeys == {"", "sk-sidebar"}
EditTexts == {<<>>, <<" ">>, <<"a"," ","b">>}
GenTexts == {<<>>, <<" ","a"," ","b","\n">>}
TitleEdits == {Rep("x", TitleMaxLen + 1)}
DescriptionEdits == {Rep("y", DescriptionMaxLen + 1)}
SlugEdits == {<<"F","o","o"," ","B","a","r">>}
SessionEnvirons == {NoEnviron}

\* the generated SEO meta texts: each labelled line absent, without a value, with
\* a short value or with a value longer than its field
MetaLine(label, option, short, long) ==
    CASE option = "absent" -> <<>>
      [] option = "empty" -> <<label>>
      [] option = "short" -> <<label \o <<" ">> \o short>>
      [] option = "long" -> <<label \o <<" ">> \o long>>

RECURSIVE JoinLines(_)
JoinLines(ls) ==
    IF ls = <<>> THEN <<>>
    ELSE IF Len(ls) = 1 THEN ls[1]
    ELSE ls[1] \o <<"\n">> \o JoinLines(Tail(ls))

MetaText(t, d, sl) ==
    JoinLines(MetaLine(TitleLabel, t, <<"F","o","o">>, Rep("x", TitleMaxLen + 1))
              \o MetaLine(DescriptionLabel, d, <<"B","a","r">>, Rep("y", DescriptionMaxLen + 1))
              \o MetaLine(SlugLabel, sl, <<"f","o","o"," ","b","a","r">>,
                          Rep("z", SlugMaxLen - 1) \o <<"-","q"," ","q">>))

MetaCases ==
    {<<"short", "short", "short">>, <<"absent", "absent", "absent">>,
     <<"empty", "short", "short">>, <<"long", "long", "long">>,
     <<"short", "absent", "absent">>, <<"absent", "short", "empty">>}
MetaTexts == {MetaText(c[1], c[2], c[3]) : c \in MetaCases} \cup {<<"n","o","n","e">>}

SessionInit ==
    /\ outline = <<>>
    /\ draft = <<>>
    /\ seo_meta = [Title |-> <<>>, Description |-> <<>>, Slug |-> <<>>]
    /\ provider = "ollama"
    /\ environ \in SessionEnvirons
    /\ lastRun = Ran("start", "none", NoCall, 0, "", <<>>, <<>>)
    /\ slugRun = Idle /\ seoRun = Idle /\ llmRun = Idle

\* the sidebar's provider selectbox
SelectProvider ==
    \E p \in {"ollama", "openai"} :
        /\ provider' = p
        /\ lastRun' = Ran("SelectProvider", "none", NoCall, 0, "", <<>>, <<>>)
        /\ UNCHANGED <<outline, draft, seo_meta, environ, slugRun, seoRun, llmRun>>

\* the user edits the outline text area
EditOutline ==
    \E t \in EditTexts :
        /\ outline' = t
        /\ lastRun' = Ran("EditOutline", "none", NoCall, 0, "", <<>>, <<>>)
        /\ UNCHANGED <<draft, seo_meta, provider, environ, slugRun, seoRun, llmRun>>

\* the user edits the draft text area
EditDraft ==
    \E t \in EditTexts :
        /\ draft' = t
        /\ lastRun' = Ran("EditDraft", "none", NoCall, 0, "", <<>>, <<>>)
        /\ UNCHANGED <<outline, seo_meta, provider, environ, slugRun, seoRun, llmRun>>

\* the user edits one of the three meta inputs
EditSeoMeta ==
    /\ \/ \E t \in TitleEdits : seo_meta' = [seo_meta EXCEPT !.Title = t]
       \/ \E t \in DescriptionEdits : seo_meta' = [seo_meta EXCEPT !.Description = t]
       \/ \E t \in SlugEdits : seo_meta' = [seo_meta EXCEPT !.Slug = t]
    /\ lastRun' = Ran("EditSeoMeta", "none", NoCall, 0, "", <<>>, <<>>)
    /\ UNCHANGED <<outline, draft, provider, environ, slugRun, seoRun, llmRun>>

\* the client of a run and what its generate call gives for a backend reply
Call(key, prompt, temperature, reply) ==
    generate(LLMClient(SidebarConfig(provider, environ, key), environ),
             prompt, temperature, reply)

Keys == IF provider = "openai" THEN SidebarKeys ELSE {None}

\* if gen_outline:
GenerateOutline ==
    \E key \in Keys, reply \in Replies(provider, SessionStatuses, SessionBodies, GenTexts) :
        LET res == Call(key, outline_prompt, Temperature, reply)
            new == gen_outline(Session, res)
        IN  /\ outline' = new.outline /\ draft' = new.draft /\ seo_meta' = new.seo_meta
            /\ lastRun' = Ran("GenerateOutline", OutcomeOf(res), res, StatusOf(reply),
                              "", <<>>, <<>>)
            /\ UNCHANGED <<provider, environ, slugRun, seoRun, llmRun>>

\* if gen_draft:
DraftFromOutline ==
    IF IsBlank(outline)
    THEN /\ lastRun' = Ran("DraftFromOutline", "warning", NoCall, 0,
                           "Please create or paste an outline first.", <<>>, <<>>)
         /\ UNCHANGED <<outline, draft, seo_meta, provider, environ,
                      slugRun, seoRun, llmRun>>
    ELSE \E key \in Keys, reply \in Replies(provider, SessionStatuses, SessionBodies, GenTexts) :
            LET res == Call(key, draft_prompt(outline), ClampTemperature(Temperature), reply)
                new == gen_draft(Session, res)
            IN  /\ outline' = new.outline /\ draft' = new.draft /\ seo_meta' = new.seo_meta
                /\ lastRun' = Ran("DraftFromOutline", OutcomeOf(res), res, StatusOf(reply),
                                  "", <<>>, <<>>)
                /\ UNCHANGED <<provider, environ, slugRun, seoRun, llmRun>>

\* if improve_btn:
ImproveDraft ==
    IF IsBlank(draft)
    THEN /\ lastRun' = Ran("ImproveDraft", "warning", NoCall, 0,
                           "Paste or generate a draft first.", <<>>, <<>>)
         /\ UNCHANGED <<outline, draft, seo_meta, provider, environ,
                      slugRun, seoRun, llmRun>>
    ELSE \E key \in Keys, reply \in Replies(provider, SessionStatuses, SessionBodies, GenTexts) :
            LET res == Call(key, improve_prompt(draft), 30, reply)
                new == gen_draft(Session, res)
            IN  /\ outline' = new.outline /\ draft' = new.draft /\ seo_meta' = new.seo_meta
                /\ lastRun' = Ran("ImproveDraft", OutcomeOf(res), res, StatusOf(reply),
                                  "", <<>>, <<>>)
                /\ UNCHANGED <<provider, environ, slugRun, seoRun, llmRun>>

\* if st.button("Get Rewrite Suggestions"):
GetSuggestions ==
    \E key \in Keys, reply \in Replies(provider, SessionStatuses, SessionBodies, GenTexts) :
        LET res == Call(key, suggestions_prompt(draft), 40, reply)
            shown == IF res.error # "none" THEN <<>>
                     ELSE IF res.text # <<>> THEN res.text
                     ELSE <<"_","N","o"," ","s","u","g","g","e","s","t","i","o","n","s"," ","y","e","t",".","_">>
        IN  /\ lastRun' = Ran("GetSuggestions", OutcomeOf(res), res, StatusOf(reply),
                              "", shown, <<>>)
            /\ UNCHANGED <<outline, draft, seo_meta, provider, environ,
                      slugRun, seoRun, llmRun>>

\* if seo_btn:
RefreshSeoMeta ==
    \E key \in Keys, reply \in Replies(provider, SessionStatuses, SessionBodies, MetaTexts) :
        LET res == Call(key, seo_meta_prompt(draft), 40, reply)
            new == seo_refresh(Session, res)
        IN  /\ outline' = new.outline /\ draft' = new.draft /\ seo_meta' = new.seo_meta
            /\ lastRun' = Ran("RefreshSeoMeta", OutcomeOf(res), res, StatusOf(reply),
                              "", <<>>, <<>>)
            /\ UNCHANGED <<provider, environ, slugRun, seoRun, llmRun>>

\* the markdown download button
Export ==
    /\ lastRun' = Ran("Export", "ok", NoCall, 0, "", <<>>,
                      <<slugify(TitleOrTopic(seo_meta)) \o <<".","m","d">>, md_export(Session)>>)
    /\ UNCHANGED <<outline, draft, seo_meta, provider, environ,
                      slugRun, seoRun, llmRun>>

SessionNext ==
    \/ SelectProvider
    \/ EditOutline
    \/ EditDraft
    \/ EditSeoMeta
    \/ GenerateOutline
    \/ DraftFromOutline
    \/ ImproveDraft
    \/ GetSuggestions
    \/ RefreshSeoMeta
    \/ Export

Spec == SessionInit /\ [][SessionNext]_vars

-----------------------------------------------------------------------------
(* The session's claims                                                    *)

\* C1: in every reachable session state the title has at most 60 characters, the
\* description at most 155, and the slug is of [a-z0-9-]{0,70} with no leading,
\* trailing or doubled hyphen.
C1_SeoMetaBounds ==
    /\ Len(seo_meta.Title) <= TitleMaxLen
    /\ Len(seo_meta.Description) <= DescriptionMaxLen
    /\ IsSlug(seo_meta.Slug)

GeneratingHandlers ==
    {"GenerateOutline", "DraftFromOutline", "ImproveDraft", "GetSuggestions", "RefreshSeoMeta"}

\* C2: a run whose generate call fails ends with the error, and outline, draft and
\* seo_meta keep the values they had before it; an HTTP error status of the local
\* backend is such a failure.
C2_FailedCallAtomic ==
    [][/\ lastRun'.outcome = "error" =>
             /\ lastRun'.error # "none"
             /\ outline' = outline /\ draft' = draft /\ seo_meta' = seo_meta
       /\ (/\ lastRun'.handler \in GeneratingHandlers
           /\ lastRun'.requests # <<>>
           /\ lastRun'.requests[1].api = "POST"
           /\ lastRun'.status >= 400) =>
             /\ lastRun'.outcome = "error"
             /\ lastRun'.error = "HTTPError"]_vars

\* the local backend answered 500 to the SEO refresh of a session that had an
\* outline, a draft and a title
C2_Witness ==
    /\ lastRun.handler = "RefreshSeoMeta"
    /\ lastRun.outcome = "error"
    /\ lastRun.error = "HTTPError"
    /\ lastRun.status = 500
    /\ outline # <<>> /\ draft # <<>> /\ seo_meta.Title # <<>>

\* empty or whitespace only
AllBlanks(text) == \A i \in 1..Len(text) : text[i] \in {" ", "\n", "\t", "\r"}

\* C3: DraftFromOutline on a blank outline and ImproveDraft on a blank draft send
\* nothing to the generation client, change none of outline, draft and seo_meta,
\* and give a warning, not an error.
C3_PreconditionSkips ==
    [][(\/ lastRun'.handler = "DraftFromOutline" /\ AllBlanks(outline)
        \/ lastRun'.handler = "ImproveDraft" /\ AllBlanks(draft)) =>
            /\ lastRun'.requests = <<>>
            /\ lastRun'.outcome = "warning"
            /\ lastRun'.warning # ""
            /\ lastRun'.error = "none"
            /\ outline' = outline /\ draft' = draft /\ seo_meta' = seo_meta]_vars

\* drafting was asked for with an outline of one blank, and skipped with the warning
C3_Witness ==
    /\ lastRun.handler = "DraftFromOutline"
    /\ lastRun.outcome = "warning"
    /\ outline = <<" ">>
    /\ draft # <<>>

\* C4: a successful run replaces one field only: GenerateOutline the outline,
\* DraftFromOutline and ImproveDraft the draft, RefreshSeoMeta seo_meta, and
\* GetSuggestions and Export none.
C4_OneFieldReplaced ==
    [][lastRun'.outcome = "ok" =>
          /\ lastRun'.handler = "GenerateOutline" =>
                /\ outline' = lastRun'.returned
                /\ draft' = draft /\ seo_meta' = seo_meta
          /\ lastRun'.handler \in {"DraftFromOutline", "ImproveDraft"} =>
                /\ draft' = lastRun'.returned
                /\ outline' = outline /\ seo_meta' = seo_meta
          /\ lastRun'.handler = "RefreshSeoMeta" =>
                outline' = outline /\ draft' = draft
          /\ lastRun'.handler \in {"GetSuggestions", "Export"} =>
                outline' = outline /\ draft' = draft /\ seo_meta' = seo_meta]_vars

\* an outline was generated in a session that holds a draft and a title
C4_Witness ==
    /\ lastRun.handler = "GenerateOutline"
    /\ lastRun.outcome = "ok"
    /\ outline = <<"a"," ","b">>
    /\ draft # <<>>
    /\ seo_meta.Title # <<>>

\* the value of the line of text that starts with label, trimmed; empty when no
\* line does
LineValue(text, label) ==
    LET ls == Lines(text, 1)
        at == {i \in 1..Len(ls) : LabelAt(ls[i], label, 1)}
    IN  IF at = {} THEN <<>>
        ELSE LET l == ls[MinOf(at)]
                 n == Len(l)
                 v == [i \in 1..(n - Len(label)) |-> l[Len(label) + i]]
                 blank(c) == c \in {" ", "\t", "\r"}
                 keep == {i \in 1..Len(v) : ~blank(v[i])}
             IN  IF keep = {} THEN <<>>
                 ELSE [i \in 1..(MaxOf(keep) - MinOf(keep) + 1) |-> v[MinOf(keep) + i - 1]]

\* C5: for every text the generation call of RefreshSeoMeta returns, the empty one
\* included, seo_meta afterwards is the first 60 characters of the Title line's
\* value, the first 155 of the Description line's and slugify of the Slug line's,
\* a missing line giving the empty string.
C5_RefreshParses ==
    (lastRun.handler = "RefreshSeoMeta" /\ lastRun.outcome = "ok") =>
        LET t == LineValue(lastRun.returned, TitleLabel)
            d == LineValue(lastRun.returned, DescriptionLabel)
            sl == LineValue(lastRun.returned, SlugLabel)
        IN  /\ seo_meta.Title = [i \in 1..(IF Len(t) < 60 THEN Len(t) ELSE 60) |-> t[i]]
            /\ seo_meta.Description = [i \in 1..(IF Len(d) < 155 THEN Len(d) ELSE 155) |-> d[i]]
            /\ seo_meta.Slug = slugify(sl)

=============================================================================
